---- MODULE Spec2Model ----
(***************************************************************************)
(* Model of palcon, an RCON client for Palworld servers (src/src/lib.rs,   *)
(* src/src/error.rs).                                                      *)
(*                                                                         *)
(* A ServerConnection owns a TcpStream and a ConnectionState flag.  Its    *)
(* public operations authenticate, run_command and ping are sequences of   *)
(* one socket write (send_packet) and, for some of them, one bounded read  *)
(* (read_response) followed by decode_response.  Strings and buffers are   *)
(* sequences of bytes (0..255); a Rust String is its UTF-8 bytes.          *)
(*                                                                         *)
(* Spec      : one connection driven by one caller, against a server that  *)
(*             may reply in time, reply late, not reply, or close.         *)
(* SpecCodec : send_packet's byte layout and decode_response as functions  *)
(*             of their arguments.                                         *)
(* SpecLong  : the same connection against a server whose replies may be  *)
(*             longer than the 4096 byte read buffer.                      *)
(***************************************************************************)
EXTENDS Integers, Sequences, FiniteSets, TLC

VARIABLES
    state,       \* ServerConnection.state
    inbound,     \* ServerConnection.stream: bytes received and not yet read
    peerClosed,  \* ServerConnection.stream: the server has closed its end
    last,        \* the most recent operation: its call, its I/O, its outcome
    nops,        \* number of operations issued on the connection
    hist,        \* what every exchange so far had in common
    codec        \* SpecCodec: one send_packet / decode_response evaluation

vars == <<state, inbound, peerClosed, last, nops, hist, codec>>

(***************************************************************************)
(* Program constants                                                       *)
(***************************************************************************)
PACKET_LENGTH_OFFSET == 0
AUTH_TYPE == 3
COMMAND_TYPE == 2
PING_TYPE == -1
AUTH_SUCCESS_TYPE == 2
BUFFER_SIZE == 4096
I32_BYTES == 4

(***************************************************************************)
(* Bounds of the model                                                     *)
(***************************************************************************)
MaxOps == 2

ConnectionState == {"Connected", "Authenticated"}

PalconError ==
    {"IoError", "Utf8Error", "TimeoutError", "ConnectionEnded",
     "FailedToReadResponse", "AuthenticationError", "AlreadyAuthenticated"}

(***************************************************************************)
(* bytes::BufMut / bytes::Buf little-endian integers (two's complement).   *)
(* \div is floor division and % is non-negative, so the four steps below   *)
(* are an arithmetic shift and a mask on a signed 32-bit value.            *)
(***************************************************************************)
put_i32_le(v) ==
    LET v1 == v \div 256
        v2 == v1 \div 256
        v3 == v2 \div 256
    IN  << v % 256, v1 % 256, v2 % 256, v3 % 256 >>

put_i16_le(v) == << v % 256, (v \div 256) % 256 >>

\* Reads the first four bytes of b; the caller has checked Len(b) >= 4.
get_i32_le(b) ==
    LET hi == IF b[4] >= 128 THEN b[4] - 256 ELSE b[4]
    IN  hi * 16777216 + b[3] * 65536 + b[2] * 256 + b[1]

Drop(s, n) == SubSeq(s, n + 1, Len(s))
Take(s, n) == SubSeq(s, 1, n)
Min(a, b) == IF a <= b THEN a ELSE b

(***************************************************************************)
(* core::str::from_utf8: TRUE iff s is well-formed UTF-8 (no overlong      *)
(* forms, no surrogates, nothing above U+10FFFF).  In well-formed UTF-8    *)
(* the bytes outside 128..191 are exactly the first bytes of the encoded   *)
(* characters, so s is well formed iff a whole character stands at every   *)
(* such byte and is followed by the end of s or by another first byte.     *)
(* Stated over positions, so that it evaluates on buffers of BUFFER_SIZE.  *)
(***************************************************************************)
IsCont(b) == b \in 128..191

\* number of bytes of the character that starts with byte b, 0 if none does
Utf8Width(b) ==
    IF b < 128 THEN 1
    ELSE IF b \in 194..223 THEN 2
    ELSE IF b \in 224..239 THEN 3
    ELSE IF b \in 240..244 THEN 4
    ELSE 0

\* the second byte of a character is further restricted by its first byte
Utf8SecondOk(b, c) ==
    CASE b = 224 -> c \in 160..191
      [] b = 237 -> c \in 128..159
      [] b = 240 -> c \in 144..191
      [] b = 244 -> c \in 128..143
      [] OTHER   -> IsCont(c)

Utf8CharAt(s, i) ==
    LET w == Utf8Width(s[i])
    IN  /\ w >= 1
        /\ i + w - 1 <= Len(s)
        /\ w >= 2 => Utf8SecondOk(s[i], s[i + 1])
        /\ \A k \in 2..(w - 1) : IsCont(s[i + k])
        /\ i + w <= Len(s) => ~IsCont(s[i + w])

Utf8Valid(s) ==
    /\ Len(s) >= 1 => ~IsCont(s[1])
    /\ \A i \in 1..Len(s) : ~IsCont(s[i]) => Utf8CharAt(s, i)

\* PacketBytes with the type tag written before the request id
PacketBytesTypeFirst(packet_type, payload) ==
    put_i32_le(PACKET_LENGTH_OFFSET + Len(payload))
        \o put_i32_le(packet_type)
        \o put_i32_le(0)
        \o payload
        \o put_i16_le(0)

(***************************************************************************)
(* send_packet, lines 112-117: the bytes handed to write_all.              *)
(***************************************************************************)
\* PacketBytes declaring the length of id, type, payload and terminator
PacketBytesLenWithHeader(packet_type, payload) ==
    put_i32_le(10 + Len(payload))
        \o put_i32_le(0)
        \o put_i32_le(packet_type)
        \o payload
        \o put_i16_le(0)

PacketBytes(packet_type, payload) ==
    put_i32_le(PACKET_LENGTH_OFFSET + Len(payload))
        \o put_i32_le(0)
        \o put_i32_le(packet_type)
        \o payload
        \o put_i16_le(0)

(***************************************************************************)
(* decode_response.  kind is "Ok", an error of PalconError, or "Panic"     *)
(* (Buf::get_i32_le panics when fewer than four bytes remain).             *)
(***************************************************************************)
NoResponse == [size |-> 0, payload |-> << >>, response_type |-> 0]

\* PayloadEnd looking for the last null byte instead of the first
PayloadEndLastNull(buf) ==
    IF \E i \in 1..Len(buf) : buf[i] = 0
    THEN (CHOOSE i \in 1..Len(buf) :
              buf[i] = 0 /\ \A j \in (i + 1)..Len(buf) : buf[j] # 0) - 1
    ELSE Len(buf)

\* iter().position(|&b| b == 0).unwrap_or(buf.len()), as a count of bytes
PayloadEnd(buf) ==
    IF \E i \in 1..Len(buf) : buf[i] = 0
    THEN (CHOOSE i \in 1..Len(buf) :
              buf[i] = 0 /\ \A j \in 1..(i - 1) : buf[j] # 0) - 1
    ELSE Len(buf)

\* PayloadString keeping the bytes without validating them
PayloadStringUnchecked(bytes) == bytes

\* str::from_utf8(..).unwrap_or_default().to_string()
PayloadString(bytes) == IF Utf8Valid(bytes) THEN bytes ELSE << >>

\* decode_response rejecting a frame whose declared size is not the number
\* of bytes that follow the size field
decode_responseSizeChecked(buffer) ==
    IF Len(buffer) = 0
    THEN [kind |-> "FailedToReadResponse", response |-> NoResponse]
    ELSE IF Len(buffer) < 3 * I32_BYTES
    THEN [kind |-> "Panic", response |-> NoResponse]
    ELSE IF get_i32_le(buffer) # Len(buffer) - I32_BYTES
    THEN [kind |-> "FailedToReadResponse", response |-> NoResponse]
    ELSE LET buf == Drop(buffer, 3 * I32_BYTES)
         IN  [kind     |-> "Ok",
              response |-> [size          |-> get_i32_le(buffer),
                            payload       |-> PayloadString(Take(buf, PayloadEnd(buf))),
                            response_type |-> get_i32_le(Drop(buffer, 2 * I32_BYTES))]]

decode_response(buffer) ==
    IF Len(buffer) = 0
    THEN [kind |-> "FailedToReadResponse", response |-> NoResponse]
    ELSE IF Len(buffer) < I32_BYTES
    THEN [kind |-> "Panic", response |-> NoResponse]
    ELSE IF Len(Drop(buffer, I32_BYTES)) < I32_BYTES
    THEN [kind |-> "Panic", response |-> NoResponse]
    ELSE IF Len(Drop(buffer, 2 * I32_BYTES)) < I32_BYTES
    THEN [kind |-> "Panic", response |-> NoResponse]
    ELSE LET response_size == get_i32_le(buffer)
             response_type == get_i32_le(Drop(buffer, 2 * I32_BYTES))
             buf           == Drop(buffer, 3 * I32_BYTES)
             payload_end   == PayloadEnd(buf)
         IN  [kind     |-> "Ok",
              response |-> [size          |-> response_size,
                            payload       |-> PayloadString(Take(buf, payload_end)),
                            response_type |-> response_type]]

(***************************************************************************)
(* read_response: one read of at most BUFFER_SIZE bytes under a 5 second   *)
(* timeout, then decode_response on the bytes read.                        *)
(*   avail  : the bytes the socket holds when the read is polled           *)
(*   closed : the peer has closed its end (a read of an empty socket       *)
(*            completes with n = 0)                                        *)
(*   rd     : "ok", or "err" when the read itself fails                    *)
(***************************************************************************)
\* read_response reading everything the socket holds, whatever its length
read_responseUnbounded(avail, closed, rd) ==
    IF rd = "err"
    THEN [read |-> "err", bytes |-> << >>, rest |-> avail,
          kind |-> "IoError", response |-> NoResponse]
    ELSE IF avail # << >> \/ closed
    THEN LET d == decode_response(avail)
         IN  [read |-> "read", bytes |-> avail, rest |-> << >>,
              kind |-> d.kind, response |-> d.response]
    ELSE [read |-> "timeout", bytes |-> << >>, rest |-> avail,
          kind |-> "TimeoutError", response |-> NoResponse]

\* read_response reporting a read of zero bytes as ConnectionEnded
read_responseEndOfStream(avail, closed, rd) ==
    IF rd = "err"
    THEN [read |-> "err", bytes |-> << >>, rest |-> avail,
          kind |-> "IoError", response |-> NoResponse]
    ELSE IF avail # << >>
    THEN LET n == Min(Len(avail), BUFFER_SIZE)
             d == decode_response(Take(avail, n))
         IN  [read |-> "read", bytes |-> Take(avail, n), rest |-> Drop(avail, n),
              kind |-> d.kind, response |-> d.response]
    ELSE IF closed
    THEN [read |-> "read", bytes |-> << >>, rest |-> avail,
          kind |-> "ConnectionEnded", response |-> NoResponse]
    ELSE [read |-> "timeout", bytes |-> << >>, rest |-> avail,
          kind |-> "TimeoutError", response |-> NoResponse]

read_response(avail, closed, rd) ==
    IF rd = "err"
    THEN [read |-> "err", bytes |-> << >>, rest |-> avail,
          kind |-> "IoError", response |-> NoResponse]
    ELSE IF avail # << >> \/ closed
    THEN LET n == Min(Len(avail), BUFFER_SIZE)
             d == decode_response(Take(avail, n))
         IN  [read |-> "read", bytes |-> Take(avail, n), rest |-> Drop(avail, n),
              kind |-> d.kind, response |-> d.response]
    ELSE [read |-> "timeout", bytes |-> << >>, rest |-> avail,
          kind |-> "TimeoutError", response |-> NoResponse]

(***************************************************************************)
(* The server.  A reply frame as the Palworld server lays it out: declared *)
(* size = payload length + 10 (size 30 for the 20 byte payload of          *)
(* quick_test), id 0, a type tag, the payload and two null bytes.          *)
(***************************************************************************)
ServerFrame(response_type, payload) ==
    put_i32_le(Len(payload) + 10)
        \o put_i32_le(0)
        \o put_i32_le(response_type)
        \o payload
        \o << 0, 0 >>

\* "Broadcasted: Hello!\n", the reply quick_test expects (declared size 30)
BroadcastReply ==
    << 66, 114, 111, 97, 100, 99, 97, 115, 116, 101, 100, 58, 32,
       72, 101, 108, 108, 111, 33, 10 >>

\* payload length of a reply that does not fit the receive buffer
LongPayloadLen == BUFFER_SIZE - 6

\* what the server may send in answer to one request: well-formed frames
\* (one of them declaring a size it does not have), the request echoed back,
\* a frame whose payload is not UTF-8, or a fragment of a header; under SpecLong, a frame longer than the
\* receive buffer ("long")
FrameKinds == {"auth_ok", "cmd_ok", "pong", "echo", "broadcast", "misreport"}
ReplyKinds == FrameKinds \cup {"short", "illformed"}

ServerBytes(rk, request) ==
    CASE rk = "auth_ok" -> ServerFrame(AUTH_SUCCESS_TYPE, << >>)
      [] rk = "cmd_ok"  -> ServerFrame(0, << 111, 107, 10 >>)
      [] rk = "pong"    -> ServerFrame(0, << >>)
      [] rk = "echo"    -> request
      [] rk = "short"   -> << 10, 0, 0, 0 >>
      [] rk = "broadcast" -> ServerFrame(0, BroadcastReply)
      [] rk = "misreport" -> put_i32_le(-7) \o Drop(ServerFrame(1, << 111, 107 >>), I32_BYTES)
      [] rk = "illformed" -> ServerFrame(0, << 255, 254 >>)
      [] rk = "long"    -> ServerFrame(0, [i \in 1..LongPayloadLen |-> 65])
      [] OTHER          -> << >>

(***************************************************************************)
(* What the transport and the server do during one operation:              *)
(*   wr    : "ok" or "err", the outcome of write_all                       *)
(*   react : the server answers the request before the read's deadline     *)
(*           ("intime"), after it ("late"), not at all ("none"), or has    *)
(*           closed the connection ("close")                               *)
(*   rk    : which reply it sends                                          *)
(*   rd    : "ok" or "err", whether the read fails                         *)
(***************************************************************************)
Env ==
    {[wr |-> "err", react |-> "none", rk |-> "none", rd |-> "ok"],
     [wr |-> "ok", react |-> "none", rk |-> "none", rd |-> "err"],
     [wr |-> "ok", react |-> "none", rk |-> "none", rd |-> "ok"]}
    \cup
    (IF peerClosed THEN {}
     ELSE {[wr |-> "ok", react |-> "close", rk |-> "none", rd |-> "ok"]}
          \cup [wr : {"ok"}, react : {"intime", "late"}, rk : ReplyKinds, rd : {"ok"}])

Passwords == { << 120 >> }
Commands == { << 104, 105 >>, << 195, 169 >> }

\* send_packet: Ok(()) with the packet on the wire, or the write's error
send_packet(packet_type, payload, e) ==
    IF e.wr = "ok"
    THEN [kind |-> "Ok", wrote |-> PacketBytes(packet_type, payload)]
    ELSE [kind |-> "IoError", wrote |-> << >>]

\* the reply the server sends to `request` under e, and when
ReplyOf(request, e) ==
    IF e.react \in {"intime", "late"} THEN ServerBytes(e.rk, request) ELSE << >>

(***************************************************************************)
(* send_and_read: send_packet(..)?, then read_response().  The result      *)
(* carries the I/O performed and the stream as the exchange leaves it.     *)
(***************************************************************************)
send_and_read(packet_type, payload, e) ==
    LET sent == send_packet(packet_type, payload, e)
    IN  IF sent.kind # "Ok"
        THEN [kind |-> sent.kind, response |-> NoResponse, wrote |-> sent.wrote,
              reply |-> << >>, read |-> "none", readBytes |-> << >>,
              inbound |-> inbound, peerClosed |-> peerClosed]
        ELSE LET reply  == ReplyOf(sent.wrote, e)
                 avail  == IF e.react = "intime" THEN inbound \o reply ELSE inbound
                 closed == peerClosed \/ e.react = "close"
                 r      == read_response(avail, closed, e.rd)
             IN  [kind |-> r.kind, response |-> r.response, wrote |-> sent.wrote,
                  reply |-> reply, read |-> r.read, readBytes |-> r.bytes,
                  inbound |-> IF e.react = "late" THEN r.rest \o reply ELSE r.rest,
                  peerClosed |-> closed]

\* AuthResult comparing against the request's type tag instead of the marker
AuthResultTagMixup(response) ==
    IF response.response_type = AUTH_TYPE THEN "Ok" ELSE "AuthenticationError"

\* authenticate, lines 84-87
AuthResult(response) ==
    IF response.response_type = AUTH_SUCCESS_TYPE THEN "Ok" ELSE "AuthenticationError"

\* every exchange so far: written, answered in time by exactly one frame, read
Answered(e) ==
    e.wr = "ok" /\ e.react = "intime" /\ e.rk \in FrameKinds /\ e.rd = "ok"

\* read is what became of the operation's read: "read" (it returned bytes or
\* end of stream), "timeout", "err", or "none" when no read was issued
NextHist(e, read) ==
    [answered |-> hist.answered /\ Answered(e),
     silent   |-> hist.silent /\ e.react = "none",
     clean    |-> hist.clean /\ e.wr = "ok" /\ read \notin {"timeout", "err"},
     sent     |-> IF e.wr = "ok" THEN hist.sent + 1 ELSE hist.sent,
     consumed |-> IF read = "read" THEN hist.consumed + 1 ELSE hist.consumed]

\* a panic unwinds the caller; the connection is not used again
Alive == last.kind # "Panic"

CodecIdle ==
    [pc |-> "idle", tag |-> 0, payload |-> << >>, bytes |-> << >>,
     res |-> [kind |-> "none", response |-> NoResponse]]

(***************************************************************************)
(* connect: a connection in state Connected on a fresh stream.             *)
(***************************************************************************)
Init ==
    /\ state = "Connected"
    /\ inbound = << >>
    /\ peerClosed = FALSE
    /\ last = [op |-> "connect", payload |-> << >>, before |-> "Connected",
               prevOp |-> "none", prevKind |-> "none",
               pending |-> << >>, write |-> "none",
               kind |-> "Ok", response |-> NoResponse, wrote |-> << >>,
               react |-> "none", reply |-> << >>, read |-> "none",
               readBytes |-> << >>]
    /\ nops = 0
    /\ hist = [answered |-> TRUE, silent |-> TRUE, clean |-> TRUE,
               sent |-> 0, consumed |-> 0]
    /\ codec = CodecIdle

\* Authenticate marking the connection authenticated as soon as a reply has
\* been decoded, before looking at its type tag
AuthenticateMarksEarly(password, e) ==
    /\ Alive
    /\ nops < MaxOps
    /\ nops' = nops + 1
    /\ IF state = "Authenticated"
       THEN /\ last' = [op |-> "authenticate", payload |-> password,
                        before |-> state,
                        prevOp |-> last.op, prevKind |-> last.kind,
                        pending |-> inbound, write |-> "none",
                        kind |-> "AlreadyAuthenticated", response |-> NoResponse,
                        wrote |-> << >>, react |-> "none", reply |-> << >>,
                        read |-> "none", readBytes |-> << >>]
            /\ UNCHANGED <<state, inbound, peerClosed, hist>>
       ELSE LET x == send_and_read(AUTH_TYPE, password, e)
            IN  /\ last' = [op |-> "authenticate", payload |-> password,
                            before |-> state,
                            prevOp |-> last.op, prevKind |-> last.kind,
                            pending |-> inbound, write |-> e.wr,
                            kind |-> IF x.kind = "Ok" THEN AuthResult(x.response)
                                     ELSE x.kind,
                            response |-> NoResponse,
                            wrote |-> x.wrote, react |-> e.react, reply |-> x.reply,
                            read |-> x.read, readBytes |-> x.readBytes]
                /\ inbound' = x.inbound
                /\ peerClosed' = x.peerClosed
                /\ hist' = NextHist(e, x.read)
                /\ state' = IF x.kind = "Ok" THEN "Authenticated" ELSE state
    /\ UNCHANGED codec

Authenticate(password, e) ==
    /\ Alive
    /\ nops < MaxOps
    /\ nops' = nops + 1
    /\ IF state = "Authenticated"
       THEN /\ last' = [op |-> "authenticate", payload |-> password,
                        before |-> state,
                        prevOp |-> last.op, prevKind |-> last.kind,
                        pending |-> inbound, write |-> "none",
                        kind |-> "AlreadyAuthenticated", response |-> NoResponse,
                        wrote |-> << >>, react |-> "none", reply |-> << >>,
                        read |-> "none", readBytes |-> << >>]
            /\ UNCHANGED <<state, inbound, peerClosed, hist>>
       ELSE LET x == send_and_read(AUTH_TYPE, password, e)
            IN  /\ last' = [op |-> "authenticate", payload |-> password,
                            before |-> state,
                            prevOp |-> last.op, prevKind |-> last.kind,
                            pending |-> inbound, write |-> e.wr,
                            kind |-> IF x.kind = "Ok" THEN AuthResult(x.response)
                                     ELSE x.kind,
                            response |-> NoResponse,
                            wrote |-> x.wrote, react |-> e.react, reply |-> x.reply,
                            read |-> x.read, readBytes |-> x.readBytes]
                /\ inbound' = x.inbound
                /\ peerClosed' = x.peerClosed
                /\ hist' = NextHist(e, x.read)
                /\ UNCHANGED state
    /\ UNCHANGED codec

RunCommand(command, e) ==
    /\ Alive
    /\ nops < MaxOps
    /\ nops' = nops + 1
    /\ LET x == send_and_read(COMMAND_TYPE, command, e)
       IN  /\ last' = [op |-> "run_command", payload |-> command,
                       before |-> state,
                       prevOp |-> last.op, prevKind |-> last.kind,
                       pending |-> inbound, write |-> e.wr,
                       kind |-> x.kind, response |-> x.response,
                       wrote |-> x.wrote, react |-> e.react, reply |-> x.reply,
                       read |-> x.read, readBytes |-> x.readBytes]
           /\ inbound' = x.inbound
           /\ peerClosed' = x.peerClosed
           /\ hist' = NextHist(e, x.read)
    /\ UNCHANGED <<state, codec>>

\* ping: send_packet(-1, "") and nothing else; the server's answer, whenever
\* it comes, stays in the stream
Ping(e) ==
    /\ Alive
    /\ nops < MaxOps
    /\ e.rd = "ok"
    /\ nops' = nops + 1
    /\ LET sent  == send_packet(PING_TYPE, << >>, e)
           reply == IF sent.kind = "Ok" THEN ReplyOf(sent.wrote, e) ELSE << >>
       IN  /\ last' = [op |-> "ping", payload |-> << >>,
                       before |-> state,
                       prevOp |-> last.op, prevKind |-> last.kind,
                       pending |-> inbound, write |-> e.wr,
                       kind |-> sent.kind, response |-> NoResponse,
                       wrote |-> sent.wrote, react |-> e.react, reply |-> reply,
                       read |-> "none", readBytes |-> << >>]
           /\ inbound' = inbound \o reply
           /\ peerClosed' = (peerClosed \/ e.react = "close")
    /\ hist' = NextHist(e, "none")
    /\ UNCHANGED <<state, codec>>

Next ==
    \/ \E password \in Passwords, e \in Env : Authenticate(password, e)
    \/ \E command \in Commands, e \in Env : RunCommand(command, e)
    \/ \E e \in Env : Ping(e)

Spec == Init /\ [][Next]_vars

(***************************************************************************)
(* SpecLong: the same connection and operations against a server whose     *)
(* replies are either short or longer than the receive buffer, and come    *)
(* in time, late or not at all.                                            *)
(***************************************************************************)
LongEnv ==
    {[wr |-> "ok", react |-> "none", rk |-> "none", rd |-> "ok"]}
    \cup [wr : {"ok"}, react : {"intime", "late"}, rk : {"long", "cmd_ok"}, rd : {"ok"}]

NextLong ==
    \/ \E password \in Passwords, e \in LongEnv : Authenticate(password, e)
    \/ \E e \in LongEnv : RunCommand(<< 104, 105 >>, e)
    \/ \E e \in LongEnv : Ping(e)

SpecLong == Init /\ [][NextLong]_vars

(***************************************************************************)
(* SpecCodec: send_packet's packet and decode_response on their own.       *)
(* A run either builds the packet of one (packet_type, payload) call and   *)
(* decodes those bytes, or decodes one received buffer.                    *)
(***************************************************************************)
MinI32 == -2147483647 - 1
MaxI32 == 2147483647

CodecTags ==
    {MinI32, -256, PING_TYPE, 0, COMMAND_TYPE, AUTH_TYPE, 255, 256, 65536, MaxI32}

\* &str arguments: well-formed UTF-8, one of them with an interior null byte
CodecPayloads ==
    { << >>,
      << 120 >>,
      << 98, 114, 111, 97, 100, 99, 97, 115, 116, 32, 72, 105, 33 >>,
      << 195, 169 >>,
      << 240, 159, 152, 128, 33 >>,
      << 97, 0, 98 >> }

\* received buffers: every prefix of one reply, and variations
RawBase == << 30, 0, 0, 0, 7, 0, 0, 0, 254, 255, 255, 255, 79, 75, 0, 90 >>

\* byte strings that are not UTF-8: a byte that is never used, an overlong
\* form, a surrogate, a character cut short, a code point above U+10FFFF,
\* a continuation byte on its own
IllFormed ==
    { << 255, 254 >>,
      << 192, 128 >>,
      << 237, 160, 128 >>,
      << 111, 195 >>,
      << 244, 144, 128, 128 >>,
      << 111, 128, 107 >> }

RawBuffers ==
    { Take(RawBase, n) : n \in 0..Len(RawBase) }
    \cup { ServerFrame(0, << 255, 254 >>),
           ServerFrame(AUTH_SUCCESS_TYPE, << >>),
           Take(ServerFrame(0, << 111, 107 >>), 14) }
    \cup { ServerFrame(5, p) : p \in IllFormed }
    \cup { Take(ServerFrame(5, p), 12 + Len(p)) : p \in IllFormed }
    \cup { ServerFrame(0, << 111, 195, 0, 169 >>),
           ServerFrame(0, << 226, 130, 172, 0, 255 >>),
           ServerFrame(0, BroadcastReply) }

CodecInit ==
    /\ state = "Connected"
    /\ inbound = << >>
    /\ peerClosed = FALSE
    /\ last = [op |-> "connect", payload |-> << >>, before |-> "Connected",
               prevOp |-> "none", prevKind |-> "none",
               pending |-> << >>, write |-> "none",
               kind |-> "Ok", response |-> NoResponse, wrote |-> << >>,
               react |-> "none", reply |-> << >>, read |-> "none",
               readBytes |-> << >>]
    /\ nops = 0
    /\ hist = [answered |-> TRUE, silent |-> TRUE, clean |-> TRUE,
               sent |-> 0, consumed |-> 0]
    /\ \/ \E t \in CodecTags, p \in CodecPayloads :
             codec = [CodecIdle EXCEPT !.pc = "call", !.tag = t, !.payload = p]
       \/ \E b \in RawBuffers :
             codec = [CodecIdle EXCEPT !.pc = "received", !.bytes = b]

\* send_packet(tag, payload) builds its packet
CodecSendPacket ==
    /\ codec.pc = "call"
    /\ codec' = [codec EXCEPT !.pc = "packet",
                              !.bytes = PacketBytes(codec.tag, codec.payload)]
    /\ UNCHANGED <<state, inbound, peerClosed, last, nops, hist>>

\* decode_response(bytes)
CodecDecode ==
    /\ codec.pc \in {"packet", "received"}
    /\ codec' = [codec EXCEPT !.pc = IF codec.pc = "packet" THEN "roundtrip"
                                     ELSE "decoded",
                              !.res = decode_response(codec.bytes)]
    /\ UNCHANGED <<state, inbound, peerClosed, last, nops, hist>>

CodecNext == CodecSendPacket \/ CodecDecode

SpecCodec == CodecInit /\ [][CodecNext]_vars

(***************************************************************************)
(* Properties                                                              *)
(***************************************************************************)
HasNull(bytes) == \E i \in 1..Len(bytes) : bytes[i] = 0

\* C1: after authenticate returns Ok(()) the connection's state is
\* Authenticated.
C1_AuthOkMeansAuthenticated ==
    (last.op = "authenticate" /\ last.kind = "Ok") => state = "Authenticated"

\* C2: of two authenticate calls made one after the other, the second returns
\* AlreadyAuthenticated and writes zero bytes to the socket.  Stated for the
\* outcome of the first call on which every section of the specification
\* agrees that the connection is then authenticated: the first returned Ok(()).
C2_SecondAuthenticateRejected ==
    (last.op = "authenticate" /\ last.prevOp = "authenticate" /\ last.prevKind = "Ok")
        => (last.kind = "AlreadyAuthenticated" /\ last.wrote = << >>)

\* C3: when every request so far was answered in time by exactly one reply
\* frame, run_command returns the decoded reply to its own request.
C3_ResponseAnswersItsRequest ==
    (last.op = "run_command" /\ hist.answered)
        => /\ last.kind = "Ok"
           /\ last.response = decode_response(last.reply).response

\* C4: a ping that returns Ok(()) has written one keepalive packet (type -1,
\* empty payload) and has read one response from the socket.
C4_PingReadsAResponse ==
    (last.op = "ping" /\ last.kind = "Ok")
        => /\ last.wrote = PacketBytes(-1, << >>)
           /\ last.read = "read"

\* C5: when the server has never sent a byte (and no write or read failed),
\* run_command and ping return TimeoutError.
C5_SilentServerTimesOut ==
    (/\ last.op \in {"run_command", "ping"}
     /\ hist.silent
     /\ last.wrote # << >>
     /\ last.read # "err")
        => last.kind = "TimeoutError"

\* C6: from state Connected (unauthenticated), when the write succeeded and
\* the read returned a decodable reply, authenticate returns Ok(()) exactly
\* when the decoded type tag is 2, and AuthenticationError for any other tag.
C6_AuthResultFollowsTypeTag ==
    (/\ last.op = "authenticate"
     /\ last.before = "Connected"
     /\ last.wrote # << >>
     /\ last.read = "read"
     /\ decode_response(last.readBytes).kind = "Ok")
        => LET tag == decode_response(last.readBytes).response.response_type
           IN  /\ (last.kind = "Ok") <=> (tag = 2)
               /\ (tag # 2) => (last.kind = "AuthenticationError")

\* an authenticate that read a reply with a type tag other than 2, after an
\* authenticate that read a reply with type tag 2
C6_Witness ==
    /\ last.op = "authenticate"
    /\ last.before = "Connected"
    /\ last.read = "read"
    /\ Len(last.readBytes) >= 12
    /\ decode_response(last.readBytes).response.response_type = AUTH_TYPE
    /\ last.kind = "AuthenticationError"
    /\ last.prevOp = "authenticate"
    /\ last.prevKind = "Ok"

\* C8: a read that returns fewer than 12 bytes makes the operation fail with
\* FailedToReadResponse, which is what decode_response returns for it.
C8_ShortBufferFailsToRead ==
    (last.read = "read" /\ Len(last.readBytes) < 12)
        => /\ decode_response(last.readBytes).kind = "FailedToReadResponse"
           /\ last.kind = "FailedToReadResponse"

\* C9: when the server has closed the connection before the first operation,
\* that operation (authenticate, run_command or ping) fails with
\* FailedToReadResponse or ConnectionEnded.
C9_ClosedPeerFailsToRead ==
    (nops = 1 /\ last.react = "close" /\ last.wrote # << >>)
        => last.kind \in {"FailedToReadResponse", "ConnectionEnded"}

\* C10: for every type tag T and payload P without a null byte, decoding the
\* packet send_packet(T, P) builds yields response_type = T and payload = P.
C10_RoundTrip ==
    (codec.pc = "roundtrip" /\ ~HasNull(codec.payload))
        => /\ codec.res.kind = "Ok"
           /\ codec.res.response.response_type = codec.tag
           /\ codec.res.response.payload = codec.payload

\* a negative tag and a multi-byte payload have made the round trip
C10_Witness ==
    /\ codec.pc = "roundtrip"
    /\ codec.tag = MinI32
    /\ codec.payload = << 240, 159, 152, 128, 33 >>
    /\ codec.res.kind = "Ok"

\* C11: run_command returns the declared size, the type tag and the payload
\* of the reply frame it read as the server sent them, whatever the declared
\* size is: size 30, type 0, "Broadcasted: Hello!\n" for the 34 byte reply of
\* quick_test, and size -7, type 1, "ok" for a reply that misreports its size.
C11_ResponseAsSent ==
    (last.op = "run_command" /\ last.pending = << >> /\ last.read = "read")
        => /\ (last.reply = ServerBytes("broadcast", << >>))
                => /\ last.kind = "Ok"
                   /\ last.response =
                          [size |-> 30, payload |-> BroadcastReply, response_type |-> 0]
           /\ (last.reply = ServerBytes("misreport", << >>))
                => /\ last.kind = "Ok"
                   /\ last.response =
                          [size |-> -7, payload |-> << 111, 107 >>, response_type |-> 1]

\* run_command has returned the reply whose declared size is -7
C11_Witness ==
    /\ last.op = "run_command"
    /\ last.react = "intime"
    /\ last.readBytes = ServerBytes("misreport", << >>)
    /\ Len(last.readBytes) = 16
    /\ last.kind = "Ok"
    /\ last.response.size = -7

\* C12: the packet send_packet builds for a payload of N bytes is 4+4+4+N+2
\* bytes long: declared length N, request id 0, the type tag, the payload,
\* two null bytes.
C12_PacketLayout ==
    (codec.pc \in {"packet", "roundtrip"})
        => LET n == Len(codec.payload)
               b == codec.bytes
           IN  /\ Len(b) = 4 + 4 + 4 + n + 2
               /\ get_i32_le(SubSeq(b, 1, 4)) = n
               /\ SubSeq(b, 5, 8) = << 0, 0, 0, 0 >>
               /\ get_i32_le(SubSeq(b, 9, 12)) = codec.tag
               /\ SubSeq(b, 13, 12 + n) = codec.payload
               /\ SubSeq(b, 13 + n, 14 + n) = << 0, 0 >>

\* the packet of send_packet(-1, 13 byte payload): 27 bytes, tag FF FF FF FF
C12_Witness ==
    /\ codec.pc = "packet"
    /\ codec.tag = -1
    /\ Len(codec.payload) = 13
    /\ Len(codec.bytes) = 27
    /\ SubSeq(codec.bytes, 1, 12) = << 13, 0, 0, 0, 0, 0, 0, 0, 255, 255, 255, 255 >>

\* C13: as long as no read has timed out (and no write or read has failed),
\* every operation that wrote a request has read a response, so that between
\* operations as many responses have been consumed as requests were sent.
C13_NoOutstandingRequest ==
    hist.clean
        => /\ last.write = "ok" => last.read = "read"
           /\ hist.sent = hist.consumed

\* C14: the state changes only in an authenticate call that returns Ok(()),
\* and only from Connected to Authenticated; a failing authenticate, a
\* run_command and a ping leave it as it was.
C14_StateChangesOnlyOnAuthOk ==
    [][(state' # state)
          => /\ last'.op = "authenticate"
             /\ last'.kind = "Ok"
             /\ state = "Connected"
             /\ state' = "Authenticated"]_vars

\* an authenticate has failed with AuthenticationError after a run_command,
\* and the state is what it was before both
C14_Witness ==
    /\ last.op = "authenticate"
    /\ last.kind = "AuthenticationError"
    /\ last.prevOp = "run_command"
    /\ last.before = "Connected"
    /\ state = "Connected"

\* C15: after an operation has failed with TimeoutError, the next operation
\* finds the state flag unchanged, writes its packet and performs its single
\* read on the same stream: a reply to the timed-out request that arrived in
\* the meantime is what that read returns first.
C15_NextReadGetsLateReply ==
    (last.prevKind = "TimeoutError" /\ last.write = "ok" /\ last.read # "err")
        => /\ state = last.before
           /\ last.read \in {"read", "timeout"}
           /\ last.pending # << >>
                => /\ last.read = "read"
                   /\ Len(last.readBytes) >= Len(last.pending)
                   /\ Take(last.readBytes, Len(last.pending)) = last.pending

\* C16: a failed write makes the operation return IoError without a read, a
\* failed read makes it return IoError, and every operation ends with a
\* success value or with one error of PalconError.
C16_IoErrorSurfaced ==
    (last.op # "connect")
        => /\ last.write = "err"
                => (last.kind = "IoError" /\ last.read = "none" /\ last.wrote = << >>)
           /\ last.read = "err" => last.kind = "IoError"
           /\ last.kind \in {"Ok"} \cup PalconError

\* the bytes of buffer from offset 12 up to, not including, the first null
\* byte after offset 12, or to the end of buffer when there is none
Delimited(buffer) ==
    LET rest  == SubSeq(buffer, 13, Len(buffer))
        nulls == {i \in 1..Len(rest) : rest[i] = 0}
    IN  IF nulls = {} THEN rest
        ELSE SubSeq(rest, 1, (CHOOSE i \in nulls : \A j \in nulls : i <= j) - 1)

\* C17: for every buffer of at least 12 bytes decode_response succeeds and,
\* the delimited bytes being text, takes as payload the bytes from offset 12 up
\* to the first null byte, or to the end of the buffer when there is none; a
\* buffer of exactly 12 bytes gives an empty payload.
C17_PayloadDelimitedByFirstNull ==
    (codec.pc \in {"decoded", "roundtrip"} /\ Len(codec.bytes) >= 12)
        => /\ codec.res.kind = "Ok"
           /\ Utf8Valid(Delimited(codec.bytes))
                => codec.res.response.payload = Delimited(codec.bytes)
           /\ Len(codec.bytes) = 12 => codec.res.response.payload = << >>

\* the 16 byte buffer ... 'O' 'K' 00 'Z' has been decoded to payload "OK"
C17_Witness ==
    /\ codec.pc = "decoded"
    /\ codec.bytes = RawBase
    /\ Len(codec.bytes) = 16
    /\ codec.bytes[15] = 0
    /\ codec.bytes[16] = 90
    /\ codec.res.kind = "Ok"
    /\ codec.res.response.payload = << 79, 75 >>

\* C18: for every buffer of at least 12 bytes whose delimited payload bytes
\* are not valid UTF-8, decode_response returns Ok with an empty payload and
\* the size and type tag of the header.
C18_IllFormedPayloadIsEmpty ==
    (/\ codec.pc = "decoded"
     /\ Len(codec.bytes) >= 12
     /\ ~Utf8Valid(Delimited(codec.bytes)))
        => /\ codec.res.kind = "Ok"
           /\ codec.res.response.payload = << >>
           /\ codec.res.response.size = get_i32_le(SubSeq(codec.bytes, 1, 4))
           /\ codec.res.response.response_type = get_i32_le(SubSeq(codec.bytes, 9, 12))

\* a frame of type 5 whose payload is an encoded surrogate has been decoded
C18_Witness ==
    /\ codec.pc = "decoded"
    /\ Delimited(codec.bytes) = << 237, 160, 128 >>
    /\ codec.res.kind = "Ok"
    /\ codec.res.response.payload = << >>
    /\ codec.res.response.size = 13
    /\ codec.res.response.response_type = 5

\* C19: read_response reads at most 4096 bytes, once: when more than 4096
\* bytes are there to read, the operation decodes the first 4096 without an
\* error of the read and leaves the rest in the stream, where the next
\* operation's read finds it first.
C19_ReadTruncatesAtBufferSize ==
    LET there == IF last.react = "intime" THEN last.pending \o last.reply
                 ELSE last.pending
        after == IF last.react = "late" THEN last.reply ELSE << >>
    IN  /\ (last.read = "read" /\ Len(there) > 4096)
            => /\ Len(last.readBytes) = 4096
               /\ last.readBytes = SubSeq(there, 1, 4096)
               /\ inbound = SubSeq(there, 4097, Len(there)) \o after
               /\ last.kind \in {"Ok", "AuthenticationError"}
        /\ (/\ last.op = "run_command" /\ last.read = "read"
            /\ last.pending = << >> /\ Len(there) > 4096)
            => /\ last.kind = "Ok"
               /\ last.response.size = 4100
               /\ last.response.response_type = 0
               /\ last.response.payload = [i \in 1..(4096 - 12) |-> 65]
        /\ (last.read = "read" /\ last.pending # << >>)
            => LET k == Min(Len(last.pending), 4096)
               IN  SubSeq(last.readBytes, 1, k) = SubSeq(last.pending, 1, k)

\* after a run_command that read 4096 bytes of a longer reply, the next
\* run_command has read the 8 bytes left over, followed by its own reply
C19_Witness ==
    /\ last.op = "run_command"
    /\ last.prevOp = "run_command"
    /\ last.prevKind = "Ok"
    /\ Len(last.pending) = 8
    /\ last.read = "read"
    /\ Len(last.readBytes) > 8
    /\ SubSeq(last.readBytes, 1, 8) = << 65, 65, 65, 65, 65, 65, 0, 0 >>

====
